---- MODULE Spec2Model ----
(***************************************************************************)
(* Model of AttemptOrder (src/src/attempt_order.rs), the iterator that     *)
(* enumerates the mutation vectors of a Vigenere key in order of the       *)
(* number of changed positions.                                            *)
(*                                                                         *)
(* usize values are represented by their residue of least absolute value:  *)
(* a value v >= 2^(w-1) is written v - 2^w, so usize::MAX is -1.  The only  *)
(* place where the code can leave the small non-negative range is          *)
(* `num_letters - 1` with num_letters = 0, which panics when the build      *)
(* checks overflow and wraps to usize::MAX when it does not.               *)
(***************************************************************************)
EXTENDS Integers, Sequences, FiniteSets, TLC

\* ------------------------------------------------------------------ bounds
MaxKeyLength == 3
MaxLetters == 3
\* cap of combination_num in the wrapping build with num_letters = 0, where
\* the iterator never leaves change level 1
MaxIndex == 6
\* number of next() calls observed after the first None
MaxNonePulls == 2

VARIABLES
    combination,      \* self.combination
    combination_num,  \* self.combination_num
    key_length,       \* self.key_length
    num_letters,      \* self.num_letters
    num_changes,      \* self.num_changes
    is_first,         \* self.is_first
    overflow_checks,  \* build profile: TRUE = arithmetic overflow panics
    result,           \* what the last next() call did
    returned,         \* history: set of vectors returned so far
    num_returned,     \* history: number of calls that returned Some
    level_count,      \* history: Some-returns per value of num_changes
    none_pulls,       \* history: number of calls that returned None
    ch_input,         \* the u8 given to the first cipher call
    ch_key,           \* the u8 key of both cipher calls
    ch_value,         \* the u8 the last cipher call returned
    ch_stage,         \* which cipher calls have been made
    ch_wrapped        \* history: some u8 operation left 0..255

cursor == <<combination, combination_num, num_changes, is_first>>
params == <<key_length, num_letters, overflow_checks>>
history == <<returned, num_returned, level_count, none_pulls>>
cipher == <<ch_input, ch_key, ch_value, ch_stage, ch_wrapped>>
vars == <<combination, combination_num, key_length, num_letters, num_changes,
          is_first, overflow_checks, result, returned, num_returned,
          level_count, none_pulls, ch_input, ch_key, ch_value, ch_stage,
          ch_wrapped>>

\* ------------------------------------------------------- usize arithmetic
\* a - 1 on usize: underflows exactly when a = 0
SubOverflows(a, b) == a < b

\* n / d on usize for 0 <= n < 2^(w-1); a negative d stands for 2^w + d > n
UDiv(n, d) == IF d < 0 THEN 0 ELSE n \div d

\* n % d on usize for 0 <= n < 2^(w-1); a negative d stands for 2^w + d > n
UMod(n, d) == IF d < 0 THEN n ELSE n % d

\* vec![0; n]
Zeros(n) == [i \in 1..n |-> 0]

\* Vec::insert(index, element), index counted from 0
VecInsert(vec, index, e) ==
    [k \in 1..(Len(vec) + 1) |->
        IF k <= index THEN vec[k]
        ELSE IF k = index + 1 THEN e
        ELSE vec[k - 1]]

\* Option<Vec<usize>> and the two other things a call can leave behind
NoCall == [tag |-> "nocall", vec |-> <<>>]
None == [tag |-> "none", vec |-> <<>>]
Panic == [tag |-> "panic", vec |-> <<>>]
Some(v) == [tag |-> "some", vec |-> v]

\* ------------------------------------------------------------ constructor
\* AttemptOrder::new(key_length, num_letters)
new(kl, nl) ==
    [combination |-> Zeros(kl), combination_num |-> 0, key_length |-> kl,
     num_letters |-> nl, num_changes |-> 0, is_first |-> TRUE]

\* the receiver of a method call
Self ==
    [combination |-> combination, combination_num |-> combination_num,
     key_length |-> key_length, num_letters |-> num_letters,
     num_changes |-> num_changes, is_first |-> is_first]

\* --------------------------------------------------------------- methods
\* a method either returns a value or panics
Ok(v) == [ok |-> TRUE, val |-> v]
Panicked == [ok |-> FALSE, val |-> <<>>]

\* `let x = e; body`: e is evaluated once and Body applied to its value
Let(e, Body(_)) == CHOOSE r \in {Body(x) : x \in {e}} : TRUE

\* `a - b` panics on underflow when the build checks overflow
SubPanics(a, b) == overflow_checks /\ SubOverflows(a, b)

\* add_combination_part: self.combination[i] += part for every entry of combo
add_combination_part(self, combo) ==
    IF Len(combo) > Len(self.combination)
    THEN Panicked
    ELSE Ok([i \in 1..Len(self.combination) |->
                IF i <= Len(combo)
                THEN self.combination[i] + combo[i]
                ELSE self.combination[i]])

\* get_combination_part with the `+ 1` of the changed entry left out
get_combination_part_no_plus_one(self, change_num, n) ==
    IF SubPanics(self.key_length, change_num) \/ SubPanics(self.num_letters, 1)
    THEN Panicked
    ELSE LET rows == self.key_length - change_num + 1
             cols == self.num_letters - 1
         IN  IF rows = 0 \/ cols = 0
             THEN Panicked
             ELSE Ok([k \in 1..rows |->
                        IF k = UMod(n, rows) + 1
                        THEN UMod(UDiv(n, rows), cols)
                        ELSE 0])

\* get_combination_part with the `% cols` of the changed entry left out
get_combination_part_no_mod(self, change_num, n) ==
    IF SubPanics(self.key_length, change_num) \/ SubPanics(self.num_letters, 1)
    THEN Panicked
    ELSE LET rows == self.key_length - change_num + 1
             cols == self.num_letters - 1
         IN  IF rows = 0 \/ cols = 0
             THEN Panicked
             ELSE Ok([k \in 1..rows |->
                        IF k = UMod(n, rows) + 1
                        THEN UDiv(n, rows) + 1
                        ELSE 0])

\* get_combination_part with rows = key_length - change_num, one too few
get_combination_part_short_rows(self, change_num, n) ==
    IF SubPanics(self.key_length, change_num) \/ SubPanics(self.num_letters, 1)
    THEN Panicked
    ELSE LET rows == self.key_length - change_num
             cols == self.num_letters - 1
         IN  IF rows = 0 \/ cols = 0
             THEN Panicked
             ELSE Ok([k \in 1..rows |->
                        IF k = UMod(n, rows) + 1
                        THEN UMod(UDiv(n, rows), cols) + 1
                        ELSE 0])

\* get_combination_part: a vector of `rows` zeros with one entry set
get_combination_part(self, change_num, n) ==
    IF SubPanics(self.key_length, change_num) \/ SubPanics(self.num_letters, 1)
    THEN Panicked
    ELSE LET rows == self.key_length - change_num + 1
             cols == self.num_letters - 1
         IN  IF rows = 0 \/ cols = 0
             THEN Panicked
             ELSE Ok([k \in 1..rows |->
                        IF k = UMod(n, rows) + 1
                        THEN UMod(UDiv(n, rows), cols) + 1
                        ELSE 0])

\* the loop of get_part_n: for i in change_num..self.num_changes
RECURSIVE part_n_loop(_, _, _)
part_n_loop(self, i, n) ==
    IF i >= self.num_changes
    THEN Ok(n)
    ELSE IF SubPanics(self.key_length, i) \/ SubPanics(self.num_letters, 1)
    THEN Panicked
    ELSE LET d == (self.key_length - i) * (self.num_letters - 1)
         IN  IF d = 0
             THEN Panicked
             ELSE Let(UDiv(n, d), LAMBDA q : part_n_loop(self, i + 1, q))

\* get_part_n: the part of combination_num that belongs to change_num
get_part_n(self, change_num) ==
    part_n_loop(self, change_num, self.combination_num)

\* the loop of is_last without the test for a zero after a changed entry
RECURSIVE is_last_loop_no_gap(_, _, _)
is_last_loop_no_gap(self, i, has_seen_changes) ==
    IF i >= Len(self.combination)
    THEN Ok(TRUE)
    ELSE LET p == self.combination[i + 1]
         IN  IF p # 0
             THEN IF SubPanics(self.num_letters, 1)
                  THEN Panicked
                  ELSE IF p # self.num_letters - 1
                  THEN Ok(FALSE)
                  ELSE is_last_loop_no_gap(self, i + 1, TRUE)
             ELSE is_last_loop_no_gap(self, i + 1, has_seen_changes)

\* the loop of is_last without the test for the maximal value
RECURSIVE is_last_loop_no_max(_, _, _)
is_last_loop_no_max(self, i, has_seen_changes) ==
    IF i >= Len(self.combination)
    THEN Ok(TRUE)
    ELSE LET p == self.combination[i + 1]
         IN  IF p # 0
             THEN is_last_loop_no_max(self, i + 1, TRUE)
             ELSE IF has_seen_changes
                  THEN Ok(FALSE)
                  ELSE is_last_loop_no_max(self, i + 1, has_seen_changes)

\* the loop of is_last over self.combination, i counted from 0
RECURSIVE is_last_loop(_, _, _)
is_last_loop(self, i, has_seen_changes) ==
    IF i >= Len(self.combination)
    THEN Ok(TRUE)
    ELSE LET p == self.combination[i + 1]
         IN  IF p # 0
             THEN IF SubPanics(self.num_letters, 1)
                  THEN Panicked
                  ELSE IF p # self.num_letters - 1
                  THEN Ok(FALSE)
                  ELSE is_last_loop(self, i + 1, TRUE)
             ELSE IF has_seen_changes
                  THEN Ok(FALSE)
                  ELSE is_last_loop(self, i + 1, has_seen_changes)

\* is_last: is this attempt the last one with this num_changes
is_last(self) ==
    IF self.num_changes = 0 THEN Ok(TRUE) ELSE is_last_loop(self, 0, FALSE)

\* the loop of stretch_vec with every zero inserted at the front
RECURSIVE stretch_loop_front(_, _, _)
stretch_loop_front(self, i, vec) ==
    IF i >= Len(self.combination)
    THEN Ok(vec)
    ELSE IF self.combination[i + 1] # 0
    THEN Let(VecInsert(vec, 0, 0), LAMBDA stretched :
             stretch_loop_front(self, i + 1, stretched))
    ELSE stretch_loop_front(self, i + 1, vec)

\* the loop of stretch_vec with no zero inserted
RECURSIVE stretch_loop_no_insert(_, _, _)
stretch_loop_no_insert(self, i, vec) ==
    IF i >= Len(self.combination)
    THEN Ok(vec)
    ELSE stretch_loop_no_insert(self, i + 1, vec)

\* the loop of stretch_vec over self.combination, i counted from 0
RECURSIVE stretch_loop(_, _, _)
stretch_loop(self, i, vec) ==
    IF i >= Len(self.combination)
    THEN Ok(vec)
    ELSE IF self.combination[i + 1] # 0
    THEN IF i > Len(vec)
         THEN Panicked
         ELSE Let(VecInsert(vec, i, 0), LAMBDA stretched :
                  stretch_loop(self, i + 1, stretched))
    ELSE stretch_loop(self, i + 1, vec)

\* stretch_vec: insert a zero at every index where self.combination is set
stretch_vec(self, vec) == stretch_loop(self, 0, vec)

\* one pass of the loop of next() that builds the new combination
generate_step(self, change_num) ==
    Let(get_part_n(self, change_num), LAMBDA n :
        IF ~n.ok THEN Panicked ELSE
        Let(get_combination_part(self, change_num, n.val), LAMBDA part :
            IF ~part.ok THEN Panicked ELSE
            Let(IF Len(part.val) < self.key_length
                THEN stretch_vec(self, part.val)
                ELSE part, LAMBDA stretched :
                IF ~stretched.ok THEN Panicked
                ELSE add_combination_part(self, stretched.val))))

\* the loop of next(): for i in (0..num_changes).rev(), change_num = num_changes - i
RECURSIVE generate_loop(_, _)
generate_loop(self, change_num) ==
    IF change_num > self.num_changes
    THEN Ok(self.combination)
    ELSE Let(generate_step(self, change_num), LAMBDA c :
             IF ~c.ok
             THEN Panicked
             ELSE Let([self EXCEPT !.combination = c.val], LAMBDA next_self :
                      generate_loop(next_self, change_num + 1)))

\* "Generate a new combination": self.combination = vec![0; key_length], then the loop
generate(self) ==
    Let([self EXCEPT !.combination = Zeros(self.key_length)], LAMBDA zeroed :
        generate_loop(zeroed, 1))

\* the cursor after the is_last test, the change level going up by two
advance_skips_level(self, last) ==
    IF last
    THEN [self EXCEPT !.combination_num = 0, !.num_changes = self.num_changes + 2]
    ELSE [self EXCEPT !.combination_num = self.combination_num + 1]

\* the cursor after the is_last test, combination_num not incremented
advance_stays(self, last) ==
    IF last
    THEN [self EXCEPT !.combination_num = 0, !.num_changes = self.num_changes + 1]
    ELSE self

\* the cursor after the is_last test of next()
advance(self, last) ==
    IF last
    THEN [self EXCEPT !.combination_num = 0, !.num_changes = self.num_changes + 1]
    ELSE [self EXCEPT !.combination_num = self.combination_num + 1]

\* ---------------------------------------------------------------- actions
TypeOK ==
    /\ key_length \in 0..MaxKeyLength
    /\ num_letters \in 0..MaxLetters
    /\ overflow_checks \in BOOLEAN
    /\ is_first \in BOOLEAN
    /\ num_changes \in 0..key_length
    /\ combination_num \in Nat
    /\ Len(combination) = key_length
    /\ result.tag \in {"nocall", "some", "none", "panic"}

Init ==
    /\ key_length \in 0..MaxKeyLength
    /\ num_letters \in 0..MaxLetters
    /\ overflow_checks \in BOOLEAN
    /\ combination = new(key_length, num_letters).combination
    /\ combination_num = new(key_length, num_letters).combination_num
    /\ num_changes = new(key_length, num_letters).num_changes
    /\ is_first = new(key_length, num_letters).is_first
    /\ result = NoCall
    /\ returned = {}
    /\ num_returned = 0
    /\ level_count = [c \in 0..key_length |-> 0]
    /\ none_pulls = 0
    /\ ch_input = 0
    /\ ch_key = 0
    /\ ch_value = 0
    /\ ch_stage = "idle"
    /\ ch_wrapped = FALSE

\* the caller receives Some(v) while the cursor is at change level c
Returns(v, c) ==
    /\ result' = Some(v)
    /\ returned' = returned \cup {v}
    /\ num_returned' = num_returned + 1
    /\ level_count' = [level_count EXCEPT ![c] = @ + 1]
    /\ UNCHANGED none_pulls

\* next(), the first attempt, is_first left set
next_first_keeps_flag ==
    /\ result.tag # "panic"
    /\ is_first
    /\ combination_num' = 0
    /\ Returns(combination, num_changes)
    /\ UNCHANGED <<combination, num_changes, is_first, params, cipher>>

\* next(), the special case for the first attempt
next_first ==
    /\ result.tag # "panic"
    /\ is_first
    /\ is_first' = FALSE
    /\ combination_num' = 0
    /\ Returns(combination, num_changes)
    /\ UNCHANGED <<combination, num_changes, params, cipher>>

\* next(), None returned and the cursor put back to change level 0
next_none_rewinds ==
    /\ result.tag # "panic"
    /\ ~is_first
    /\ is_last(Self).ok /\ is_last(Self).val
    /\ num_changes = key_length
    /\ none_pulls < MaxNonePulls
    /\ result' = None
    /\ none_pulls' = none_pulls + 1
    /\ combination_num' = 0
    /\ num_changes' = 0
    /\ UNCHANGED <<combination, is_first, params, returned, num_returned,
                   level_count, cipher>>

\* next(), the very last attempt has been returned: None
next_none ==
    /\ result.tag # "panic"
    /\ ~is_first
    /\ is_last(Self).ok /\ is_last(Self).val
    /\ num_changes = key_length
    /\ none_pulls < MaxNonePulls
    /\ result' = None
    /\ none_pulls' = none_pulls + 1
    /\ UNCHANGED <<cursor, params, returned, num_returned, level_count, cipher>>

\* next(), move the cursor and generate the new combination
next_generate ==
    /\ result.tag # "panic"
    /\ ~is_first
    /\ is_last(Self).ok
    /\ ~(is_last(Self).val /\ num_changes = key_length)
    /\ SubOverflows(num_letters, 1) => combination_num < MaxIndex
    /\ LET self == advance(Self, is_last(Self).val)
           c == generate(self)
       IN  /\ c.ok
           /\ combination_num' = self.combination_num
           /\ num_changes' = self.num_changes
           /\ combination' = c.val
           /\ Returns(c.val, self.num_changes)
    /\ UNCHANGED <<is_first, params, cipher>>

\* next(), a panic while testing is_last or generating the new combination;
\* the call unwinds with the cursor already moved
next_panic ==
    /\ result.tag # "panic"
    /\ ~is_first
    /\ IF ~is_last(Self).ok
       THEN UNCHANGED <<combination_num, num_changes>>
       ELSE /\ ~(is_last(Self).val /\ num_changes = key_length)
            /\ LET self == advance(Self, is_last(Self).val)
               IN  /\ ~generate(self).ok
                   /\ combination_num' = self.combination_num
                   /\ num_changes' = self.num_changes
    /\ result' = Panic
    /\ UNCHANGED <<combination, is_first, params, history, cipher>>

Next == next_first \/ next_none \/ next_generate \/ next_panic

Spec == Init /\ [][Next]_vars

\* the attack loop of main() pulls from the iterator until it is exhausted
FairSpec == Spec /\ WF_vars(Next)

\* ------------------------------------------------------- character cipher
\* letters are coded 0..25
AlphabetSize == 26
\* u8 holds 0..255
U8Modulus == 256

\* a + b on u8: the value the wrapping build computes, and whether the sum
\* left 0..255
U8Add(a, b) == [val |-> (a + b) % U8Modulus, overflow |-> a + b >= U8Modulus]

\* a - b on u8
U8Sub(a, b) == [val |-> (a - b) % U8Modulus, overflow |-> a < b]

\* encrypt_char: (input + key) % 26
encrypt_char(input, key) ==
    LET sum == U8Add(input, key)
    IN  [val |-> sum.val % AlphabetSize, overflow |-> sum.overflow]

\* decrypt_char with the `+ 26` left out
decrypt_char_no_bias(input, key) ==
    LET diff == U8Sub(input, key)
    IN  [val |-> diff.val % AlphabetSize, overflow |-> diff.overflow]

\* decrypt_char: (input + 26 - key) % 26
decrypt_char(input, key) ==
    LET biased == U8Add(input, AlphabetSize)
        diff == U8Sub(biased.val, key)
    IN  [val |-> diff.val % AlphabetSize,
         overflow |-> biased.overflow \/ diff.overflow]

\* any two u8 values and either build; the iterator is not used
CipherInit ==
    /\ ch_input \in 0..(U8Modulus - 1)
    /\ ch_key \in 0..(U8Modulus - 1)
    /\ ch_value = ch_input
    /\ ch_stage = "start"
    /\ ch_wrapped = FALSE
    /\ overflow_checks \in BOOLEAN
    /\ key_length = 0
    /\ num_letters = AlphabetSize
    /\ combination = new(key_length, num_letters).combination
    /\ combination_num = new(key_length, num_letters).combination_num
    /\ num_changes = new(key_length, num_letters).num_changes
    /\ is_first = new(key_length, num_letters).is_first
    /\ result = NoCall
    /\ returned = {}
    /\ num_returned = 0
    /\ level_count = [c \in 0..key_length |-> 0]
    /\ none_pulls = 0

\* a cipher call returned r: an overflow panics when the build checks it
CipherReturns(r, stage) ==
    /\ ch_wrapped' = (ch_wrapped \/ r.overflow)
    /\ IF r.overflow /\ overflow_checks
       THEN ch_stage' = "panic" /\ UNCHANGED ch_value
       ELSE ch_stage' = stage /\ ch_value' = r.val
    /\ UNCHANGED <<ch_input, ch_key, cursor, params, result, history>>

\* encrypt_char(value, key), first or after a decrypt_char
encrypt_call ==
    /\ ch_stage \in {"start", "decrypted"}
    /\ CipherReturns(encrypt_char(ch_value, ch_key),
                     IF ch_stage = "start" THEN "encrypted" ELSE "dec_enc")

\* decrypt_char(value, key), first or after an encrypt_char
decrypt_call ==
    /\ ch_stage \in {"start", "encrypted"}
    /\ CipherReturns(decrypt_char(ch_value, ch_key),
                     IF ch_stage = "start" THEN "decrypted" ELSE "enc_dec")

CipherNext == encrypt_call \/ decrypt_call

CipherSpec == CipherInit /\ [][CipherNext]_vars

\* ----------------------------------------------------- claim vocabulary
\* count of nonzero entries
Weight(v) == Cardinality({i \in 1..Len(v) : v[i] # 0})

RECURSIVE Pow(_, _)
Pow(b, e) == IF e = 0 THEN 1 ELSE b * Pow(b, e - 1)

RECURSIVE Binomial(_, _)
Binomial(n, k) ==
    IF k = 0 THEN 1
    ELSE IF n = 0 THEN 0
    ELSE Binomial(n - 1, k - 1) + Binomial(n - 1, k)

\* N(c) = C(L, c) * (A-1)^c
LevelSize(c) == Binomial(key_length, c) * Pow(num_letters - 1, c)

\* every length-L vector over [0, A-1]
AllVectors == [1..key_length -> 0..(num_letters - 1)]

AllMax == [i \in 1..key_length |-> num_letters - 1]

\* number of next() calls that have returned
Calls == num_returned + none_pulls

ValidParams == num_letters >= 2

\* ------------------------------------------------------------- claims
\* C1: for A >= 2 the vectors returned up to the first None are pairwise
\* distinct, i.e. as many different vectors as calls that returned one.
C1_NoVectorTwice ==
    ValidParams => Cardinality(returned) = num_returned

\* C2: for A >= 2, when next() returns None every length-L vector over
\* [0, A-1] has been returned.
C2_NoVectorSkipped ==
    (ValidParams /\ result.tag = "none") => returned = AllVectors

C2_Witness ==
    /\ result.tag = "none"
    /\ key_length = MaxKeyLength
    /\ num_letters = MaxLetters
    /\ returned = AllVectors

\* C3: for A >= 2, at exhaustion the number of vectors returned while
\* num_changes = c is C(L, c) * (A-1)^c, for every c in 0..L.
C3_LevelSize ==
    (ValidParams /\ result.tag = "none") =>
        \A c \in 0..key_length : level_count[c] = LevelSize(c)

\* C4: for A >= 2 the weight of consecutive returned vectors stays or goes
\* up by exactly one; the first vector has weight 0 and the last one weight L.
C4_WeightOrder ==
    [][ValidParams =>
        /\ (result.tag = "some" /\ result'.tag = "some") =>
              Weight(result'.vec) - Weight(result.vec) \in {0, 1}
        /\ (result.tag = "nocall" /\ result'.tag = "some") =>
              Weight(result'.vec) = 0
        /\ (result.tag = "some" /\ result'.tag = "none") =>
              Weight(result.vec) = key_length]_vars

C4_Witness ==
    /\ ValidParams
    /\ result.tag = "none"
    /\ key_length = MaxKeyLength
    /\ \A c \in 0..key_length : level_count[c] > 0

\* C5: for A >= 2 the vector returned right before a None is the all-maximal
\* vector, and the call after the all-maximal vector returns None.
C5_TerminalVector ==
    [][ValidParams =>
        /\ (result.tag = "some" /\ result'.tag = "none") => result.vec = AllMax
        /\ (result.tag = "some" /\ result.vec = AllMax) => result'.tag = "none"]_vars

C5_Witness ==
    /\ num_letters = MaxLetters
    /\ key_length = MaxKeyLength
    /\ result.tag = "none"
    /\ combination = AllMax

\* C6: with A < 2 and L >= 1 the enumerator returns the all-zero vector,
\* then None, never leaves change level 0 and never panics.
C6_DegeneratesToBaseline ==
    (num_letters < 2 /\ key_length >= 1) =>
        /\ result.tag # "panic"
        /\ num_changes = 0
        /\ num_returned <= 1
        /\ result.tag = "some" => result.vec = Zeros(key_length)

\* C7: once a call has returned None every later call returns None, and a
\* call that returns None leaves the cursor as it was.
C7_ExhaustionPermanent ==
    [][/\ result.tag = "none" => result'.tag = "none"
       /\ result'.tag = "none" => UNCHANGED cursor]_vars

C7_Witness ==
    /\ result.tag = "none"
    /\ none_pulls = MaxNonePulls
    /\ key_length >= 1

\* C8: for A >= 2 the first returned vector is the all-zero vector, it is the
\* only one returned at change level 0 and no later vector is all-zero.
C8_BaselineFirst ==
    ValidParams =>
        /\ (result.tag = "some" /\ num_returned = 1) =>
              result.vec = Zeros(key_length)
        /\ (result.tag = "some" /\ num_returned > 1) => Weight(result.vec) > 0
        /\ num_returned >= 1 => level_count[0] = 1

C8_Witness ==
    /\ ValidParams
    /\ key_length >= 2
    /\ num_returned > 1
    /\ result.tag = "some"

\* the sequence claimed for L = 2, A = 3
C9_Expected ==
    << <<0, 0>>, <<1, 0>>, <<0, 1>>, <<2, 0>>, <<0, 2>>,
       <<1, 1>>, <<1, 2>>, <<2, 1>>, <<2, 2>> >>

\* C9: for L = 2, A = 3 the k-th returned vector is the k-th of
\* [0,0],[1,0],[0,1],[2,0],[0,2],[1,1],[1,2],[2,1],[2,2], and None follows
\* the ninth.
C9_Scenario ==
    (key_length = 2 /\ num_letters = 3) =>
        /\ num_returned <= Len(C9_Expected)
        /\ result.tag = "some" => result.vec = C9_Expected[num_returned]
        /\ result.tag = "none" => num_returned = Len(C9_Expected)

\* C10: for L = 0 and any A the first call returns the empty vector and
\* every later call returns None.
C10_EmptyKey ==
    key_length = 0 =>
        /\ Calls = 0 => result = NoCall
        /\ Calls = 1 => result = Some(<<>>)
        /\ Calls >= 2 => (result = None /\ num_returned = 1)

C10_Witness ==
    /\ key_length = 0
    /\ num_letters = 0
    /\ Calls >= 2

\* C11: for A >= 2 every returned vector has exactly L entries, each in
\* [0, A-1], so each entry indexes a ranked list of A symbols.
C11_VectorShape ==
    (ValidParams /\ result.tag = "some") =>
        /\ Len(result.vec) = key_length
        /\ \A i \in 1..Len(result.vec) : result.vec[i] \in 0..(num_letters - 1)

C11_Witness ==
    /\ result.tag = "some"
    /\ key_length = MaxKeyLength
    /\ num_letters = MaxLetters
    /\ num_changes = key_length
    /\ combination_num > 0

\* C12: for A >= 2 every call that returns a vector after the first moves
\* (num_changes, combination_num) strictly forward in lexicographic order,
\* and repeated calls eventually return None.
C12_Terminates ==
    /\ [][(ValidParams /\ result.tag = "some" /\ result'.tag = "some") =>
            \/ num_changes' > num_changes
            \/ (num_changes' = num_changes /\ combination_num' > combination_num)]_vars
    /\ (ValidParams ~> result.tag = "none")

C12_Witness ==
    /\ ValidParams
    /\ result.tag = "none"
    /\ key_length = MaxKeyLength
    /\ num_returned > LevelSize(key_length)

\* the vector next() builds for the cursor (c, m)
Decoded(c, m) ==
    generate([Self EXCEPT !.num_changes = c, !.combination_num = m]).val

\* C14: for A >= 2 and every reached cursor with c >= 1, is_last() is true
\* exactly when combination_num = N(c) - 1.
C14_IsLastIffLevelEnd ==
    (ValidParams /\ result.tag = "some" /\ num_changes >= 1) =>
        (is_last(Self).val <=> combination_num = LevelSize(num_changes) - 1)

\* C15: for A >= 2 and the change level c of the cursor, m |-> Decoded(c, m)
\* on 0..N(c)-1 is one-to-one and its image is the set of the length-L
\* vectors with exactly c nonzero entries.
C15_DecodeBijection ==
    (ValidParams /\ ~is_first) =>
        LET c == num_changes
            image == {Decoded(c, m) : m \in 0..(LevelSize(c) - 1)}
        IN  /\ Cardinality(image) = LevelSize(c)
            /\ image = {v \in AllVectors : Weight(v) = c}

\* C16: for A >= 2 every reachable state has 0 <= combination_num < N(c)
\* for c = num_changes.
C16_IndexInDomain ==
    ValidParams =>
        (0 <= combination_num /\ combination_num < LevelSize(num_changes))

\* divisor_j = product over k in j+1..c of (L-k+1) * V
RECURSIVE OpenDivisor(_, _)
OpenDivisor(j, c) ==
    IF j >= c THEN 1
    ELSE (key_length - (j + 1) + 1) * (num_letters - 1) * OpenDivisor(j + 1, c)

\* the sequence s without its entry at index k (from 1)
RemoveAt(s, k) == [i \in 1..(Len(s) - 1) |-> IF i < k THEN s[i] ELSE s[i + 1]]

\* slots j..c of the open-positions rule applied to the vector vec
RECURSIVE OpenDecodeLoop(_, _, _, _, _)
OpenDecodeLoop(j, c, m, open, vec) ==
    IF j > c THEN vec
    ELSE LET rows == key_length - j + 1
             digit == (m \div OpenDivisor(j, c)) % (rows * (num_letters - 1))
             slot_offset == digit % rows
             value_offset == digit \div rows
             position == open[slot_offset + 1]
         IN  OpenDecodeLoop(j + 1, c, m, RemoveAt(open, slot_offset + 1),
                            [vec EXCEPT ![position] = value_offset + 1])

\* the open-positions decoding of the index m at change level c
OpenDecode(c, m) ==
    OpenDecodeLoop(1, c, m, [i \in 1..key_length |-> i], Zeros(key_length))

\* C17: for A >= 2 the vector next() builds by stretching and adding at the
\* cursor (c, m) is the vector of the open-positions rule for (c, m).
C17_StretchEqualsOpenPositions ==
    (ValidParams /\ result.tag = "some") =>
        result.vec = OpenDecode(num_changes, combination_num)

C17_Witness ==
    /\ ValidParams
    /\ result.tag = "some"
    /\ num_changes = MaxKeyLength
    /\ combination_num > LevelSize(num_changes)
    /\ result.vec = OpenDecode(num_changes, combination_num)

\* self.combination after the first k passes of the loop of next()
RECURSIVE PartialCombination(_, _)
PartialCombination(self, k) ==
    IF k = 0
    THEN Zeros(self.key_length)
    ELSE generate_step(
            [self EXCEPT !.combination = PartialCombination(self, k - 1)],
            k).val

\* pass j of the loop of next() on the cursor self meets no failing operation
SlotSafe(self, j) ==
    LET s == [self EXCEPT !.combination = PartialCombination(self, j - 1)]
        rows == self.key_length - j + 1
        cols == self.num_letters - 1
        n == get_part_n(s, j)
        part == get_combination_part(s, j, n.val)
        stretched == IF Len(part.val) < self.key_length
                     THEN stretch_vec(s, part.val)
                     ELSE part
    IN  /\ \A i \in j..(self.num_changes - 1) :
              (self.key_length - i) * (self.num_letters - 1) # 0
        /\ n.ok
        /\ rows # 0 /\ cols # 0
        /\ part.ok
        /\ (n.val % rows) + 1 \in 1..Len(part.val)
        /\ stretched.ok
        /\ Len(stretched.val) = self.key_length
        /\ add_combination_part(s, stretched.val).ok

\* C18: for A >= 2 no call panics: in every pass of every call the divisors
\* and moduli are nonzero, the set index is inside the part, stretch_vec
\* inserts inside the part and the stretched part has exactly L entries.
C18_NoRuntimeFailure ==
    ValidParams =>
        /\ result.tag # "panic"
        /\ is_last(Self).ok
        /\ (~is_first /\ ~(is_last(Self).val /\ num_changes = key_length)) =>
              LET self == advance(Self, is_last(Self).val)
              IN  /\ generate(self).ok
                  /\ \A j \in 1..self.num_changes : SlotSafe(self, j)

C18_Witness ==
    /\ num_letters = MaxLetters
    /\ key_length = MaxKeyLength
    /\ num_changes = key_length
    /\ result.tag = "some"
    /\ ~is_last(Self).val
    /\ \A j \in 1..num_changes : SlotSafe(advance(Self, FALSE), j)

\* C19: for A >= 2, after every call that returns a vector the stored
\* combination is that vector and has exactly num_changes nonzero entries.
C19_WeightIsNumChanges ==
    (ValidParams /\ result.tag = "some") =>
        /\ combination = result.vec
        /\ Weight(combination) = num_changes

C19_Witness ==
    /\ ValidParams
    /\ result.tag = "some"
    /\ key_length = MaxKeyLength
    /\ num_changes >= 2
    /\ combination_num >= LevelSize(num_changes)
    /\ Weight(combination) = num_changes

\* letter codes
Letters == 0..(AlphabetSize - 1)

\* C20: for x and k in 0..25, decrypt_char(encrypt_char(x, k), k) = x and
\* encrypt_char(decrypt_char(x, k), k) = x, every result is in 0..25 and no
\* u8 operation leaves 0..255.
C20_CipherRoundTrip ==
    (ch_input \in Letters /\ ch_key \in Letters) =>
        /\ ch_stage # "panic"
        /\ ~ch_wrapped
        /\ ch_value \in Letters
        /\ ch_stage \in {"enc_dec", "dec_enc"} => ch_value = ch_input

C20_Witness ==
    /\ ch_input = AlphabetSize - 1
    /\ ch_key = AlphabetSize - 1
    /\ ch_stage = "enc_dec"
    /\ ch_value = ch_input

====
